---- MODULE Spec2Model ----
(***************************************************************************)
(* The LiquidityManager of vote-liq: the typed class (index.ts) and the    *)
(* untyped class (index.js), their state and every public operation.       *)
(*                                                                         *)
(* Numbers.  A JavaScript number is modelled as an exact fraction          *)
(* [n |-> numerator, d |-> denominator] in lowest terms with d > 0, and    *)
(* the three non-finite values as d = 0: n = 0 is NaN, n = 1 is Infinity,  *)
(* n = -1 is -Infinity.  Rounding of the binary representation is not      *)
(* modelled, and -0 is not told apart from 0 (no divisor is ever -0: every *)
(* divisor is a reduce() that starts from +0).                             *)
(*                                                                         *)
(* Objects.  A JavaScript object used as a map is an ordered map: a        *)
(* sequence of entries [k |-> key, v |-> value] with distinct keys, in     *)
(* insertion order, which is the order Object.keys/values/entries give.    *)
(* References are modelled where the code shares them: a manager's state   *)
(* lives in a cell of `store`, and two handles naming one cell are two     *)
(* references to the same pair of map objects.                             *)
(***************************************************************************)
EXTENDS Integers, Sequences, FiniteSets, TLC

\* ------------------------------------------------------------- numbers

Abs(x) == IF x < 0 THEN -x ELSE x

Sign(x) == IF x < 0 THEN -1 ELSE IF x > 0 THEN 1 ELSE 0

RECURSIVE GCD(_, _)
GCD(a, b) == IF b = 0 THEN a ELSE GCD(b, a % b)

\* The fraction n/d in canonical form (d = 0: NaN or a signed Infinity).
Q(n, d) ==
    IF d = 0 THEN [n |-> Sign(n), d |-> 0]
    ELSE IF n = 0 THEN [n |-> 0, d |-> 1]
    ELSE LET g == GCD(Abs(n), Abs(d))
             s == Sign(d)
         IN  [n |-> (s * n) \div g, d |-> (s * d) \div g]

Zero == Q(0, 1)
One == Q(1, 1)
NaN == Q(0, 0)
Infinity == Q(1, 0)

IsNaN(x) == x.d = 0 /\ x.n = 0
IsFinite(x) == x.d > 0

\* x + y
NumAdd(x, y) ==
    IF x.d = 0 /\ y.d = 0
    THEN (IF x.n = y.n THEN x ELSE NaN)
    ELSE Q(x.n * y.d + y.n * x.d, x.d * y.d)

\* x * y
NumMul(x, y) == Q(x.n * y.n, x.d * y.d)

\* x / y: x times the reciprocal of y (1/0 is Infinity, 1/Infinity is 0).
NumDiv(x, y) ==
    LET r == IF y.n < 0 THEN [n |-> -y.d, d |-> -y.n] ELSE [n |-> y.d, d |-> y.n]
    IN  Q(x.n * r.n, x.d * r.d)

NumNeg(x) == [n |-> -x.n, d |-> x.d]

NumSub(x, y) == NumAdd(x, NumNeg(y))

NumAbs(x) == [n |-> Abs(x.n), d |-> x.d]

\* x > y, false when either is NaN.
NumGt(x, y) ==
    /\ ~IsNaN(x)
    /\ ~IsNaN(y)
    /\ IF x.d = 0 /\ y.d = 0 THEN x.n > y.n
       ELSE IF x.d = 0 THEN x.n > 0
       ELSE IF y.d = 0 THEN y.n < 0
       ELSE x.n * y.d > y.n * x.d

NumLt(x, y) == NumGt(y, x)

\* x === 0
NumIsZero(x) == x.d > 0 /\ x.n = 0

\* JavaScript truthiness of a number used in `a || 0`.
NumOrZero(x) == IF IsNaN(x) THEN Zero ELSE x

\* JSON.parse(JSON.stringify(x)) of a number: a non-finite number is written
\* as null.
Null == [n |-> 0, d |-> -1]
JsonNum(x) == IF x.d = 0 THEN Null ELSE x

\* ------------------------------------------------------- ordered maps

RECURSIVE IndexOfKey(_, _, _)
IndexOfKey(m, k, i) ==
    IF i > Len(m) THEN 0
    ELSE IF m[i].k = k THEN i
    ELSE IndexOfKey(m, k, i + 1)

\* obj[k] is defined
Has(m, k) == IndexOfKey(m, k, 1) # 0

\* obj[k]
Get(m, k) == m[IndexOfKey(m, k, 1)].v

\* obj[k] = v: an existing key keeps its place, a new key goes last.
Put(m, k, v) ==
    LET i == IndexOfKey(m, k, 1)
    IN  IF i = 0 THEN Append(m, [k |-> k, v |-> v])
        ELSE [m EXCEPT ![i] = [k |-> k, v |-> v]]

Keys(m) == {m[i].k : i \in 1..Len(m)}

\* The same keys with f applied to each value.
MapValues(m, f(_)) == [i \in 1..Len(m) |-> [k |-> m[i].k, v |-> f(m[i].v)]]

\* Equality of two objects as maps, whatever the order of their keys.
SameMap(m1, m2) ==
    /\ Keys(m1) = Keys(m2)
    /\ \A k \in Keys(m1) : Get(m1, k) = Get(m2, k)

\* ------------------------------------------------------------ results

\* What a call gives back: [value, null] (ok), [null, Error(err)] (err), or
\* an exception that leaves the call (throw).
Ok(v) == [kind |-> "ok", err |-> "", val |-> v]
Err(msg) == [kind |-> "err", err |-> msg, val |-> <<>>]
Throw(msg) == [kind |-> "throw", err |-> msg, val |-> <<>>]

\* A state object: the two maps, and whether the object has each property
\* (an object given to the typed initialize may lack either).
StateObj(txs, own) ==
    [hasTxs |-> TRUE, hasOwn |-> TRUE, signedTxs |-> txs, addyOwnership |-> own]

EmptyState == StateObj(<<>>, <<>>)

Pref(t1, t2, w) == [token1 |-> t1, token2 |-> t2, weight |-> w]

Owner(p, t, vp) == [percentage |-> p, tokens |-> t, voting_power |-> vp]

\* preferences.reduce((sum, pref) => sum + pref.weight, 0)
RECURSIVE SumWeightsFrom(_, _, _)
SumWeightsFrom(prefs, i, acc) ==
    IF i > Len(prefs) THEN acc
    ELSE SumWeightsFrom(prefs, i + 1, NumAdd(acc, prefs[i].weight))

SumWeights(prefs) == SumWeightsFrom(prefs, 1, Zero)

\* Object.values(addyOwnership).reduce((sum, d) => sum + d.percentage, 0)
RECURSIVE SumPercentageFrom(_, _, _)
SumPercentageFrom(own, i, acc) ==
    IF i > Len(own) THEN acc
    ELSE SumPercentageFrom(own, i + 1, NumAdd(acc, own[i].v.percentage))

SumPercentage(own) == SumPercentageFrom(own, 1, Zero)

RECURSIVE SumVotingPowerFrom(_, _, _)
SumVotingPowerFrom(own, i, acc) ==
    IF i > Len(own) THEN acc
    ELSE SumVotingPowerFrom(own, i + 1, NumAdd(acc, own[i].v.voting_power))

SumVotingPower(own) == SumVotingPowerFrom(own, 1, Zero)

\* ------------------------------------------------ the typed class (index.ts)

\* initialize(data) accepts data unless !data || typeof data !== 'object':
\* any object, an array included, whatever properties it has.  The manager
\* then keeps the caller's object itself.
InitializeAcceptsT(shape) == shape \in {"object", "array"}

\* getState(): { ...this.state }, a new object with the same two maps.
GetStateT(s) == Ok(s)

NormalizeLiquidityWeightsT(s, address) ==
    IF ~s.hasTxs THEN Throw("TypeError")
    ELSE IF ~Has(s.signedTxs, address) THEN Err("Address not found")
    ELSE LET preferences == Get(s.signedTxs, address)
             totalWeight == SumWeights(preferences)
         IN  IF NumIsZero(totalWeight) THEN Err("Total weight cannot be zero")
             ELSE Ok([i \in 1..Len(preferences) |->
                        [preferences[i] EXCEPT
                            !.weight = NumDiv(preferences[i].weight, totalWeight)]])

GetOwnershipDetailsT(s, address) ==
    IF ~s.hasOwn THEN Throw("TypeError")
    ELSE IF ~Has(s.addyOwnership, address) THEN Err("Address not found")
    ELSE Ok(Get(s.addyOwnership, address))

\* findIndex(tx => tx.token1 === token1 && tx.token2 === token2), from 1; 0: none
RECURSIVE FindIndexT(_, _, _, _)
FindIndexT(prefs, token1, token2, i) ==
    IF i > Len(prefs) THEN 0
    ELSE IF prefs[i].token1 = token1 /\ prefs[i].token2 = token2 THEN i
    ELSE FindIndexT(prefs, token1, token2, i + 1)

\* The preference list of address after the update or the push.
UpsertT(prefs, token1, token2, weight) ==
    LET existingIndex == FindIndexT(prefs, token1, token2, 1)
    IN  IF existingIndex > 0
        THEN [prefs EXCEPT ![existingIndex].weight = weight]
        ELSE Append(prefs, Pref(token1, token2, weight))

\* An addLiquidityPreference that does not ask for an ownership record.
AddLiquidityPreferenceT_NoOwnerCheck(s, address, token1, token2, weight) ==
    IF ~s.hasTxs THEN [st |-> s, ret |-> Throw("TypeError")]
    ELSE LET old == IF Has(s.signedTxs, address) THEN Get(s.signedTxs, address)
                    ELSE <<>>
             new == UpsertT(old, token1, token2, weight)
         IN  [st |-> [s EXCEPT !.signedTxs = Put(s.signedTxs, address, new)],
              ret |-> Ok(<<>>)]

\* addLiquidityPreference: [st |-> the state after, ret |-> the result]
AddLiquidityPreferenceT(s, address, token1, token2, weight) ==
    IF ~s.hasOwn THEN [st |-> s, ret |-> Throw("TypeError")]
    ELSE IF ~Has(s.addyOwnership, address)
    THEN [st |-> s, ret |-> Err("Address not found in ownership data")]
    ELSE IF ~s.hasTxs THEN [st |-> s, ret |-> Throw("TypeError")]
    ELSE LET old == IF Has(s.signedTxs, address) THEN Get(s.signedTxs, address)
                    ELSE <<>>
             new == UpsertT(old, token1, token2, weight)
         IN  [st |-> [s EXCEPT !.signedTxs = Put(s.signedTxs, address, new)],
              ret |-> Ok(<<>>)]

\* recalculateVotingPower (private): the ownership map after it.
RecalculateVotingPowerT(own) ==
    LET totalPercentage == SumPercentage(own)
    IN  IF NumIsZero(totalPercentage) THEN own
        ELSE [i \in 1..Len(own) |->
                [own[i] EXCEPT
                    !.v.voting_power = NumDiv(own[i].v.percentage, totalPercentage)]]

\* percentage < 0 || percentage > 1
OutOfRangeT(percentage) == NumLt(percentage, Zero) \/ NumGt(percentage, One)

\* What updateOwnership runs after the write.
AfterWriteT(own) == RecalculateVotingPowerT(own)

UpdateOwnershipT(s, address, tokens, percentage) ==
    IF OutOfRangeT(percentage)
    THEN [st |-> s, ret |-> Err("Percentage must be between 0 and 1")]
    ELSE IF ~s.hasOwn THEN [st |-> s, ret |-> Throw("TypeError")]
    ELSE LET written == Put(s.addyOwnership, address,
                            Owner(percentage, tokens, percentage))
         IN  [st |-> [s EXCEPT !.addyOwnership = AfterWriteT(written)],
              ret |-> Ok(<<>>)]

\* One preference of `address` added to the pairs object.
PairsAddT(pairs, address, ownership, pref) ==
    LET pairKey == pref.token1 \o "-" \o pref.token2
        entry == IF Has(pairs, pairKey) THEN Get(pairs, pairKey)
                 ELSE [token1 |-> pref.token1, token2 |-> pref.token2,
                       totalIncentive |-> Zero, addressIncentives |-> <<>>]
        incentive == NumMul(pref.weight, ownership.voting_power)
    IN  Put(pairs, pairKey,
            [entry EXCEPT
                !.totalIncentive = NumAdd(entry.totalIncentive, incentive),
                !.addressIncentives = Put(entry.addressIncentives, address, incentive)])

RECURSIVE PairsOfListT(_, _, _, _, _)
PairsOfListT(pairs, address, ownership, prefs, i) ==
    IF i > Len(prefs) THEN pairs
    ELSE PairsOfListT(PairsAddT(pairs, address, ownership, prefs[i]),
                      address, ownership, prefs, i + 1)

\* An aggregation that counts an address with no ownership record with the
\* voting power 0 instead of passing it over.
RECURSIVE PairsFromT_ZeroForMissing(_, _, _)
PairsFromT_ZeroForMissing(pairs, s, j) ==
    IF j > Len(s.signedTxs) THEN pairs
    ELSE LET address == s.signedTxs[j].k
             ownership == IF Has(s.addyOwnership, address)
                          THEN Get(s.addyOwnership, address)
                          ELSE Owner(Zero, 0, Zero)
         IN  PairsFromT_ZeroForMissing(
                 PairsOfListT(pairs, address, ownership, s.signedTxs[j].v, 1),
                 s, j + 1)

RECURSIVE PairsFromT(_, _, _)
PairsFromT(pairs, s, j) ==
    IF j > Len(s.signedTxs) THEN pairs
    ELSE LET address == s.signedTxs[j].k
         IN  IF ~Has(s.addyOwnership, address) THEN PairsFromT(pairs, s, j + 1)
             ELSE PairsFromT(PairsOfListT(pairs, address,
                                          Get(s.addyOwnership, address),
                                          s.signedTxs[j].v, 1),
                             s, j + 1)

\* Object.values(pairs): the entries in the order their keys were first seen.
PairListT(s) ==
    LET pairs == PairsFromT(<<>>, s, 1)
    IN  [i \in 1..Len(pairs) |-> pairs[i].v]

\* Object.entries(undefined) throws, and so does undefined[address], which
\* is read once per address of signedTxs.
PairsThrowT(s) == ~s.hasTxs \/ (~s.hasOwn /\ Len(s.signedTxs) > 0)

GetIncentivizedPairsT(s) ==
    IF PairsThrowT(s) THEN Throw("TypeError")
    ELSE Ok(PairListT(s))

\* A find that takes the tokens in the given order only.
RECURSIVE FindPairT_GivenOrder(_, _, _, _)
FindPairT_GivenOrder(pairs, token1, token2, i) ==
    IF i > Len(pairs) THEN 0
    ELSE IF pairs[i].token1 = token1 /\ pairs[i].token2 = token2 THEN i
    ELSE FindPairT_GivenOrder(pairs, token1, token2, i + 1)

RECURSIVE FindPairT(_, _, _, _)
FindPairT(pairs, token1, token2, i) ==
    IF i > Len(pairs) THEN 0
    ELSE IF \/ (pairs[i].token1 = token1 /\ pairs[i].token2 = token2)
            \/ (pairs[i].token1 = token2 /\ pairs[i].token2 = token1)
         THEN i
    ELSE FindPairT(pairs, token1, token2, i + 1)

RECURSIVE SumValuesFrom(_, _, _)
SumValuesFrom(m, i, acc) ==
    IF i > Len(m) THEN acc
    ELSE SumValuesFrom(m, i + 1, NumAdd(acc, m[i].v))

GetPairIncentiveDetailsT(s, token1, token2) ==
    IF PairsThrowT(s) THEN Throw("TypeError")
    ELSE LET pairs == PairListT(s)
             i == FindPairT(pairs, token1, token2, 1)
         IN  IF i = 0 THEN Err("Pair not found")
             ELSE LET pair == pairs[i]
                      totalIncentive == SumValuesFrom(pair.addressIncentives, 1, Zero)
                      Normalized(incentive) == NumDiv(incentive, totalIncentive)
                  IN  Ok([token1 |-> pair.token1, token2 |-> pair.token2,
                          totalIncentive |-> totalIncentive,
                          addressIncentives |-> pair.addressIncentives,
                          normalizedIncentives |->
                              MapValues(pair.addressIncentives, Normalized)])

\* The sign of the comparator (a, b) => b.totalIncentive - a.totalIncentive;
\* sort takes a NaN from the comparator for +0.
CompareFn(a, b) ==
    LET v == NumSub(b.totalIncentive, a.totalIncentive)
    IN  IF IsNaN(v) THEN 0 ELSE Sign(v.n)

\* A consistent comparator orders the elements: "equal" and "before" are
\* transitive (the comparator here is antisymmetric by construction).
ConsistentFn(xs) ==
    \A i, j, k \in 1..Len(xs) :
        /\ (CompareFn(xs[i], xs[j]) = 0 /\ CompareFn(xs[j], xs[k]) = 0)
              => CompareFn(xs[i], xs[k]) = 0
        /\ (CompareFn(xs[i], xs[j]) < 0 /\ CompareFn(xs[j], xs[k]) < 0)
              => CompareFn(xs[i], xs[k]) < 0

\* The orders of the indices of xs.
IndexOrders(xs) ==
    {p \in [1..Len(xs) -> 1..Len(xs)] :
        \A i, j \in 1..Len(xs) : i # j => p[i] # p[j]}

\* Array.prototype.sort(comparator): with a consistent comparator the one
\* stable order; with an inconsistent one the order is left to the engine.
SortOutcomes(xs) ==
    LET sorted(p) ==
            \A i, j \in 1..Len(xs) :
                i < j => \/ CompareFn(xs[p[i]], xs[p[j]]) < 0
                         \/ (CompareFn(xs[p[i]], xs[p[j]]) = 0 /\ p[i] < p[j])
        orders == IF ConsistentFn(xs) THEN {p \in IndexOrders(xs) : sorted(p)}
                  ELSE IndexOrders(xs)
    IN  {[i \in 1..Len(xs) |-> xs[p[i]]] : p \in orders}

\* slice(0, limit): a negative limit counts from the end.
SliceTo(xs, limit) ==
    LET end == IF limit < 0
               THEN (IF Len(xs) + limit < 0 THEN 0 ELSE Len(xs) + limit)
               ELSE (IF limit > Len(xs) THEN Len(xs) ELSE limit)
    IN  SubSeq(xs, 1, end)

\* limit = 5
DefaultLimitT == 5

\* getTopIncentivizedPairs(limit): the results it can give.
GetTopIncentivizedPairsT(s, limit) ==
    IF PairsThrowT(s) THEN {Throw("TypeError")}
    ELSE {Ok(SliceTo(sortedPairs, limit)) : sortedPairs \in SortOutcomes(PairListT(s))}

\* ---------------------------------------------- the untyped class (index.js)

\* The order [token1, token2].sort() puts the tokens of the model in.
TokenRank(t) == CASE t = "X" -> 1 [] t = "Y" -> 2 [] t = "Z" -> 3

\* [token1, token2].sort()
SortTokens(token1, token2) ==
    IF TokenRank(token2) < TokenRank(token1) THEN <<token2, token1>>
    ELSE <<token1, token2>>

\* JSON.parse(JSON.stringify(map)) of the two maps.
JsonPrefs(prefs) ==
    [i \in 1..Len(prefs) |-> [prefs[i] EXCEPT !.weight = JsonNum(prefs[i].weight)]]

JsonTxs(txs) == MapValues(txs, JsonPrefs)

JsonOwner(o) ==
    [percentage |-> JsonNum(o.percentage), tokens |-> o.tokens,
     voting_power |-> JsonNum(o.voting_power)]

JsonOwnership(own) == MapValues(own, JsonOwner)

\* An initialize that recomputes every voting_power from the loaded shares.
InitializeU_Recalculates(s, options) ==
    IF options.ownKind = "map" /\ options.txsKind # "unserializable"
    THEN LET own == JsonOwnership(options.addyOwnership)
             total == SumPercentage(own)
         IN  [st |-> [s EXCEPT
                        !.signedTxs = IF options.txsKind = "map"
                                      THEN JsonTxs(options.signedTxs) ELSE @,
                        !.addyOwnership =
                            [i \in 1..Len(own) |->
                                [own[i] EXCEPT
                                    !.v.voting_power =
                                        NumDiv(own[i].v.percentage, total)]]],
              ret |-> Ok(TRUE)]
    ELSE [st |-> s, ret |-> Ok(TRUE)]

\* initialize(options).  Each property of options is absent (or falsy), a
\* map, or a map JSON.stringify throws on (a cyclic reference, a BigInt).
\* options itself is undefined (the default {} applies), null (reading a
\* property of it throws inside the try) or an object.
InitializeU(s, options) ==
    IF options.shape = "undefined" THEN [st |-> s, ret |-> Ok(TRUE)]
    ELSE IF options.shape = "null" THEN [st |-> s, ret |-> Err("TypeError")]
    ELSE IF options.txsKind = "unserializable"
    THEN [st |-> s, ret |-> Err("TypeError")]
    ELSE LET s1 == IF options.txsKind = "map"
                   THEN [s EXCEPT !.signedTxs = JsonTxs(options.signedTxs)]
                   ELSE s
         IN  IF options.ownKind = "unserializable"
             THEN [st |-> s1, ret |-> Err("TypeError")]
             ELSE IF options.ownKind = "map"
             THEN [st |-> [s1 EXCEPT
                             !.addyOwnership = JsonOwnership(options.addyOwnership)],
                   ret |-> Ok(TRUE)]
             ELSE [st |-> s1, ret |-> Ok(TRUE)]

\* getState(): a deep copy under the names signed_txs and addy_ownership.
GetStateU(s) ==
    Ok([signed_txs |-> JsonTxs(s.signedTxs),
        addy_ownership |-> JsonOwnership(s.addyOwnership)])

\* Math.abs(total - 1.0) > 0.001
OffOneU(total) == NumGt(NumAbs(NumSub(total, One)), Q(1, 1000))

\* A normalization that divides whatever the sum is.
NormalizedU_NoTolerance(allocations) ==
    LET totalWeight == SumWeights(allocations)
    IN  [i \in 1..Len(allocations) |->
            [allocations[i] EXCEPT
                !.weight = NumDiv(allocations[i].weight, totalWeight)]]

\* The list of an address after normalizeLiquidityWeights ran on it.
NormalizedU(allocations) ==
    LET totalWeight == SumWeights(allocations)
    IN  IF OffOneU(totalWeight)
        THEN [i \in 1..Len(allocations) |->
                [allocations[i] EXCEPT
                    !.weight = NumDiv(allocations[i].weight, totalWeight)]]
        ELSE allocations

NormalizeLiquidityWeightsU(s, address) ==
    IF ~Has(s.signedTxs, address)
    THEN [st |-> s, ret |-> Err("Address not found")]
    ELSE LET new == NormalizedU(Get(s.signedTxs, address))
         IN  [st |-> [s EXCEPT !.signedTxs = Put(s.signedTxs, address, new)],
              ret |-> Ok(new)]

GetOwnershipDetailsU(s, address) ==
    IF ~Has(s.addyOwnership, address)
    THEN Err("Address not found in ownership records")
    ELSE Ok(Get(s.addyOwnership, address))

RECURSIVE FindIndexU(_, _, _, _)
FindIndexU(prefs, t1, t2, i) ==
    IF i > Len(prefs) THEN 0
    ELSE IF \/ (prefs[i].token1 = t1 /\ prefs[i].token2 = t2)
            \/ (prefs[i].token1 = t2 /\ prefs[i].token2 = t1)
         THEN i
    ELSE FindIndexU(prefs, t1, t2, i + 1)

\* The list after the weight was added or the record pushed, before the
\* normalization.
UpsertU(prefs, token1, token2, weight) ==
    LET std == SortTokens(token1, token2)
        existingPairIndex == FindIndexU(prefs, std[1], std[2], 1)
    IN  IF existingPairIndex > 0
        THEN [prefs EXCEPT
                ![existingPairIndex] =
                    Pref(std[1], std[2],
                         NumAdd(prefs[existingPairIndex].weight, weight))]
        ELSE Append(prefs, Pref(std[1], std[2], weight))

AddLiquidityPreferenceU(s, address, token1, token2, weight) ==
    LET old == IF Has(s.signedTxs, address) THEN Get(s.signedTxs, address)
               ELSE <<>>
        new == NormalizedU(UpsertU(old, token1, token2, weight))
    IN  [st |-> [s EXCEPT !.signedTxs = Put(s.signedTxs, address, new)],
         ret |-> Ok(new)]

\* An updateOwnership that makes a new map of the one record.
UpdateOwnershipU_ReplacesMap(s, address, tokens, percentage) ==
    LET rec == Owner(percentage, tokens, percentage)
    IN  [st |-> [s EXCEPT !.addyOwnership = <<[k |-> address, v |-> rec]>>],
         ret |-> Ok(rec)]

UpdateOwnershipU(s, address, tokens, percentage) ==
    LET rec == Owner(percentage, tokens, percentage)
    IN  [st |-> [s EXCEPT !.addyOwnership = Put(s.addyOwnership, address, rec)],
         ret |-> Ok(rec)]

\* A recalculation that takes the sum of the voting powers for the total.
RecalculateU_SumsVotingPower(own) ==
    LET totalPercentage == SumVotingPower(own)
    IN  IF OffOneU(totalPercentage)
        THEN [i \in 1..Len(own) |->
                LET p == NumDiv(own[i].v.percentage, totalPercentage)
                IN  [own[i] EXCEPT !.v.percentage = p, !.v.voting_power = p]]
        ELSE own

\* The ownership map after recalculateVotingPower.
RecalculateU(own) ==
    LET totalPercentage == SumPercentage(own)
    IN  IF OffOneU(totalPercentage)
        THEN [i \in 1..Len(own) |->
                LET p == NumDiv(own[i].v.percentage, totalPercentage)
                IN  [own[i] EXCEPT !.v.percentage = p, !.v.voting_power = p]]
        ELSE own

RecalculateVotingPowerU(s) ==
    LET new == RecalculateU(s.addyOwnership)
    IN  [st |-> [s EXCEPT !.addyOwnership = new], ret |-> Ok(new)]

\* this.addy_ownership[address]?.voting_power || 0
VotingPowerU(s, address) ==
    IF Has(s.addyOwnership, address)
    THEN NumOrZero(Get(s.addyOwnership, address).voting_power)
    ELSE Zero

PairsAddU(pairIncentives, address, votingPower, pair) ==
    LET std == SortTokens(pair.token1, pair.token2)
        pairKey == std[1] \o "-" \o std[2]
        entry == IF Has(pairIncentives, pairKey) THEN Get(pairIncentives, pairKey)
                 ELSE [token1 |-> std[1], token2 |-> std[2],
                       totalIncentive |-> Zero, addressContributions |-> <<>>]
        contribution == NumMul(votingPower, pair.weight)
    IN  Put(pairIncentives, pairKey,
            [entry EXCEPT
                !.totalIncentive = NumAdd(entry.totalIncentive, contribution),
                !.addressContributions =
                    Put(entry.addressContributions, address, contribution)])

RECURSIVE PairsOfListU(_, _, _, _, _)
PairsOfListU(pairIncentives, address, votingPower, prefs, i) ==
    IF i > Len(prefs) THEN pairIncentives
    ELSE PairsOfListU(PairsAddU(pairIncentives, address, votingPower, prefs[i]),
                      address, votingPower, prefs, i + 1)

RECURSIVE PairsFromU(_, _, _)
PairsFromU(pairIncentives, s, j) ==
    IF j > Len(s.signedTxs) THEN pairIncentives
    ELSE LET address == s.signedTxs[j].k
         IN  PairsFromU(PairsOfListU(pairIncentives, address,
                                     VotingPowerU(s, address), s.signedTxs[j].v, 1),
                        s, j + 1)

\* getIncentivizedPairs(): the object keyed by pair key.
GetIncentivizedPairsU(s) == Ok(PairsFromU(<<>>, s, 1))

GetPairIncentiveDetailsU(s, token1, token2) ==
    LET std == SortTokens(token1, token2)
        pairKey == std[1] \o "-" \o std[2]
        allPairs == PairsFromU(<<>>, s, 1)
    IN  IF ~Has(allPairs, pairKey) THEN Err("Token pair not found in incentives")
        ELSE Ok(Get(allPairs, pairKey))

\* limit = 10
DefaultLimitU == 10

\* getTopIncentivizedPairs(limit): the results it can give.
GetTopIncentivizedPairsU(s, limit) ==
    LET pairIncentives == PairsFromU(<<>>, s, 1)
        values == [i \in 1..Len(pairIncentives) |-> pairIncentives[i].v]
    IN  {Ok(SliceTo(sortedPairs, limit)) : sortedPairs \in SortOutcomes(values)}

\* ------------------------------------------------------ inputs and bounds

\* Calls of one run that write into a map or load new data.
MaxOps == 2

Addresses == {"a1", "a2"}

\* The (token1, token2) arguments given to the calls.
PairArgs == {<<"X", "Y">>, <<"Y", "X">>, <<"X", "Z">>}

WeightArgs == {Zero, Q(1, 2), One}

TokenArgs == {1000}

PercentageArgs == {Q(-1, 2), Zero, Q(2, 5), One, Q(3, 2)}

\* The limits given to getTopIncentivizedPairs.
LimitArgs == {-1, 0, 1, 2}

\* Preference lists of loaded data: empty, one record, the weights 2 and 3,
\* a sum of 1.0005 over two records of one unordered pair, a zero weight,
\* two weights that cancel, and two records with the same tokens in the
\* same order.
LoadLists ==
    { <<>>,
      <<Pref("X", "Y", Q(1, 2)), Pref("X", "Y", Q(1, 4))>>,
      <<Pref("X", "Y", Q(7, 10))>>,
      <<Pref("X", "Y", Q(2, 1)), Pref("X", "Z", Q(3, 1))>>,
      <<Pref("X", "Y", Q(1, 2)), Pref("Y", "X", Q(5005, 10000))>>,
      <<Pref("X", "Y", Zero)>>,
      <<Pref("X", "Y", Q(1, 2)), Pref("X", "Z", Q(-1, 2))>> }

OneEntry(k, v) == <<[k |-> k, v |-> v]>>

LoadTxs ==
    {<<>>}
    \cup {OneEntry("a1", l) : l \in LoadLists}
    \cup {OneEntry("a1", l) \o OneEntry("a2", <<Pref("X", "Y", Q(1, 2))>>) :
            l \in {<<Pref("X", "Y", Q(7, 10))>>,
                   <<Pref("X", "Y", Q(2, 1)), Pref("X", "Z", Q(3, 1))>>}}
    \cup {OneEntry("a2", <<Pref("X", "Z", One)>>)
            \o OneEntry("a1", <<Pref("Y", "X", Q(7, 10))>>)}

\* Ownership maps of loaded data: shares that sum to 1, to 1.2, to 1.0005
\* and to 0 (a zero share, and two shares that cancel), and a voting_power
\* that is not the percentage.
LoadOwnership ==
    { <<>>,
      OneEntry("a1", Owner(One, 1000, One)),
      OneEntry("a1", Owner(One, 1000, Zero)),
      OneEntry("a1", Owner(Zero, 1000, Zero)),
      OneEntry("a1", Owner(Q(3, 5), 1000, Q(3, 5)))
        \o OneEntry("a2", Owner(Q(2, 5), 500, Q(2, 5))),
      OneEntry("a2", Owner(Q(3, 5), 1000, Q(3, 5)))
        \o OneEntry("a1", Owner(Q(3, 5), 1000, Q(3, 5))),
      OneEntry("a1", Owner(Q(1, 2), 1000, Q(1, 2)))
        \o OneEntry("a2", Owner(Q(5005, 10000), 1000, Q(1, 4))),
      OneEntry("a1", Owner(Q(1, 2), 1000, Q(1, 2)))
        \o OneEntry("a2", Owner(Q(-1, 2), 1000, Q(-1, 2))) }

\* What a caller hands to initialize: a value of some shape and, for an
\* object, what each of its two properties is.
Data(shape, txsKind, txs, ownKind, own) ==
    [shape |-> shape, txsKind |-> txsKind, signedTxs |-> txs,
     ownKind |-> ownKind, addyOwnership |-> own]

NotAnObject == {Data(sh, "absent", <<>>, "absent", <<>>) :
                    sh \in {"undefined", "null", "number"}}

\* Three addresses with a record each, of three pairs, the middle weight 0.
ThreePairs ==
    Data("object", "map",
         OneEntry("a1", <<Pref("X", "Z", One)>>)
           \o OneEntry("a2", <<Pref("X", "Y", Zero)>>)
           \o OneEntry("a3", <<Pref("Y", "Z", One)>>),
         "map",
         OneEntry("a1", Owner(Q(1, 5), 200, Q(1, 5)))
           \o OneEntry("a2", Owner(Q(3, 10), 300, Q(3, 10)))
           \o OneEntry("a3", Owner(Q(1, 2), 500, Q(1, 2))))

\* Objects with both maps: one slice varies the preferences, one the
\* ownership.
WellFormed ==
    {Data("object", "map", t, "map",
          OneEntry("a1", Owner(Q(3, 5), 1000, Q(3, 5)))
            \o OneEntry("a2", Owner(Q(2, 5), 500, Q(2, 5)))) : t \in LoadTxs}
    \cup {Data("object", "map", OneEntry("a1", <<Pref("X", "Y", Q(7, 10))>>),
               "map", o) : o \in LoadOwnership}
    \cup {ThreePairs}

\* Objects that lack one of the maps or both, and an array.
Partial ==
    { Data("object", "absent", <<>>, "absent", <<>>),
      Data("array", "absent", <<>>, "absent", <<>>),
      Data("object", "map", OneEntry("a1", <<Pref("X", "Y", Q(2, 1))>>),
           "absent", <<>>),
      Data("object", "absent", <<>>,
           "map", OneEntry("a2", Owner(One, 1000, One))) }

\* Objects one of whose maps JSON.stringify cannot write.
Unserializable ==
    { Data("object", "map", OneEntry("a2", <<Pref("X", "Z", One)>>),
           "unserializable", <<>>),
      Data("object", "unserializable", <<>>,
           "map", OneEntry("a2", Owner(One, 1000, One))) }

\* The state object a data object is, seen through the typed class.
AsStateObj(data) ==
    [hasTxs |-> data.txsKind = "map", hasOwn |-> data.ownKind = "map",
     signedTxs |-> data.signedTxs, addyOwnership |-> data.addyOwnership]

\* --------------------------------------------------------------- state

Instances == {1, 2}

\* Cells of the heap: one per handle (each manager's state, the caller's).
Cells == {1, 2, 3}

VARIABLES
    impl,   \* "typed" or "untyped": the class the managers of this run are
    store,  \* cell -> the state object (the pair of maps) in it
    mgr,    \* manager -> the cell its state is
    held,   \* the cell of the object the caller still holds, or 0
    op,     \* the last call and its arguments
    ret,    \* what the last call gave back
    nops    \* calls made so far that write into a map or load new data

vars == <<impl, store, mgr, held, op, ret, nops>>

\* The state of manager i.
State(i) == store[mgr[i]]

\* A cell no handle but `mine` names (mine: the handle being re-pointed).
FreeCell(others) == CHOOSE c \in Cells \ others :
                        \A c2 \in Cells \ others : c <= c2

\* Cells nothing names any more are cleared.
Collect(st, m, h) ==
    [c \in Cells |->
        IF c \in {m[i] : i \in Instances} \cup {h} THEN st[c] ELSE EmptyState]

Init ==
    /\ impl \in {"typed", "untyped"}
    /\ store = [c \in Cells |-> EmptyState]
    /\ mgr = [i \in Instances |-> i]
    /\ held = 0
    /\ op = [name |-> "constructor"]
    /\ ret = Ok(<<>>)
    /\ nops = 0

\* -------------------------------------------------------------- actions

\* A call on manager i that works on the manager's own maps in place.
InPlace(i, o, res, counts) ==
    /\ store' = [store EXCEPT ![mgr[i]] = res.st]
    /\ ret' = res.ret
    /\ op' = o
    /\ nops' = IF counts THEN nops + 1 ELSE nops
    /\ UNCHANGED <<impl, mgr, held>>

\* A call that only reads.
Reads(i, o, r) == InPlace(i, o, [st |-> State(i), ret |-> r], FALSE)

\* initialize(data) with an object the caller has just built; keep: the
\* caller keeps its reference to the object afterwards.
Initialize(i, data, keep) ==
    /\ nops < MaxOps
    /\ op' = [name |-> "initialize", inst |-> i, data |-> data]
    /\ nops' = nops + 1
    /\ UNCHANGED impl
    /\ IF impl = "typed"
       THEN IF ~InitializeAcceptsT(data.shape)
            THEN /\ ret' = Err("Invalid initialization data")
                 /\ UNCHANGED <<store, mgr, held>>
            ELSE LET c == FreeCell({mgr[j] : j \in Instances \ {i}} \cup {held})
                     m == [mgr EXCEPT ![i] = c]
                     h == IF keep THEN c ELSE held
                 IN  /\ mgr' = m
                     /\ held' = h
                     /\ store' = Collect([store EXCEPT ![c] = AsStateObj(data)], m, h)
                     /\ ret' = Ok(<<>>)
       ELSE LET res == InitializeU(State(i), data)
                c == FreeCell({mgr[j] : j \in Instances})
                h == IF keep /\ data.shape = "object" THEN c ELSE held
                st == [store EXCEPT ![mgr[i]] = res.st]
            IN  /\ mgr' = mgr
                /\ held' = h
                /\ store' = Collect(IF h = c THEN [st EXCEPT ![c] = AsStateObj(data)]
                                    ELSE st, mgr, h)
                /\ ret' = res.ret

\* initialize(data) with the object the caller holds: one it gave to an
\* initialize before, or a result of getState.
InitializeHeld(i) ==
    /\ impl = "typed"
    /\ held # 0
    /\ op' = [name |-> "initializeHeld", inst |-> i]
    /\ mgr' = [mgr EXCEPT ![i] = held]
    /\ store' = Collect(store, mgr', held)
    /\ ret' = Ok(<<>>)
    /\ UNCHANGED <<impl, held, nops>>

\* A reset that empties the preference map only.
Reset_KeepsOwnership(i) ==
    /\ nops < MaxOps
    /\ op' = [name |-> "reset", inst |-> i]
    /\ nops' = nops + 1
    /\ ret' = IF impl = "typed" THEN Ok(<<>>) ELSE Ok(TRUE)
    /\ LET c == IF impl = "typed"
                THEN FreeCell({mgr[j] : j \in Instances \ {i}} \cup {held})
                ELSE mgr[i]
           kept == [EmptyState EXCEPT !.addyOwnership = State(i).addyOwnership]
       IN  /\ mgr' = [mgr EXCEPT ![i] = c]
           /\ store' = Collect([store EXCEPT ![c] = kept], mgr', held)
    /\ UNCHANGED <<impl, held>>

Reset(i) ==
    /\ nops < MaxOps
    /\ op' = [name |-> "reset", inst |-> i]
    /\ nops' = nops + 1
    /\ ret' = IF impl = "typed" THEN Ok(<<>>) ELSE Ok(TRUE)
    /\ LET c == IF impl = "typed"
                THEN FreeCell({mgr[j] : j \in Instances \ {i}} \cup {held})
                ELSE mgr[i]
       IN  /\ mgr' = [mgr EXCEPT ![i] = c]
           /\ store' = Collect([store EXCEPT ![c] = EmptyState], mgr', held)
    /\ UNCHANGED <<impl, held>>

\* The call a getState follows, as the getState's record keeps it.
Brief(o, r) ==
    IF o.name = "initialize"
    THEN [name |-> o.name, kind |-> r.kind, data |-> o.data]
    ELSE [name |-> o.name, kind |-> r.kind]

\* getState(); keep: the caller keeps the object it got.
GetState(i, keep) ==
    /\ op' = [name |-> "getState", inst |-> i, after |-> Brief(op, ret)]
    /\ UNCHANGED <<impl, mgr, nops>>
    /\ IF impl = "typed"
       THEN /\ ret' = GetStateT(State(i))
            /\ held' = IF keep THEN mgr[i] ELSE held
            /\ store' = Collect(store, mgr, held')
       ELSE LET r == GetStateU(State(i))
                c == FreeCell({mgr[j] : j \in Instances})
            IN  /\ ret' = r
                /\ held' = IF keep THEN c ELSE held
                /\ store' = Collect(
                     IF keep
                     THEN [store EXCEPT
                             ![c] = StateObj(r.val.signed_txs, r.val.addy_ownership)]
                     ELSE store, mgr, held')

NormalizeLiquidityWeights(i, address) ==
    LET o == [name |-> "normalizeLiquidityWeights", inst |-> i, address |-> address]
    IN  IF impl = "typed"
        THEN Reads(i, o, NormalizeLiquidityWeightsT(State(i), address))
        ELSE /\ nops < MaxOps
             /\ InPlace(i, o, NormalizeLiquidityWeightsU(State(i), address), TRUE)

GetOwnershipDetails(i, address) ==
    Reads(i, [name |-> "getOwnershipDetails", inst |-> i, address |-> address],
          IF impl = "typed" THEN GetOwnershipDetailsT(State(i), address)
          ELSE GetOwnershipDetailsU(State(i), address))

AddLiquidityPreference(i, address, pair, weight) ==
    /\ nops < MaxOps
    /\ InPlace(i, [name |-> "addLiquidityPreference", inst |-> i,
                   address |-> address, token1 |-> pair[1], token2 |-> pair[2],
                   weight |-> weight],
               IF impl = "typed"
               THEN AddLiquidityPreferenceT(State(i), address, pair[1], pair[2], weight)
               ELSE AddLiquidityPreferenceU(State(i), address, pair[1], pair[2], weight),
               TRUE)

UpdateOwnership(i, address, tokens, percentage) ==
    /\ nops < MaxOps
    /\ InPlace(i, [name |-> "updateOwnership", inst |-> i, address |-> address,
                   tokens |-> tokens, percentage |-> percentage],
               IF impl = "typed"
               THEN UpdateOwnershipT(State(i), address, tokens, percentage)
               ELSE UpdateOwnershipU(State(i), address, tokens, percentage),
               TRUE)

\* recalculateVotingPower(): public in the untyped class only.
RecalculateVotingPower(i) ==
    /\ nops < MaxOps
    /\ impl = "untyped"
    /\ InPlace(i, [name |-> "recalculateVotingPower", inst |-> i],
               RecalculateVotingPowerU(State(i)), TRUE)

GetIncentivizedPairs(i) ==
    Reads(i, [name |-> "getIncentivizedPairs", inst |-> i],
          IF impl = "typed" THEN GetIncentivizedPairsT(State(i))
          ELSE GetIncentivizedPairsU(State(i)))

\* getTopIncentivizedPairs(limit), or getTopIncentivizedPairs() when no
\* limit is given.
GetTopIncentivizedPairs(i, given, limit) ==
    LET n == IF given THEN limit
             ELSE IF impl = "typed" THEN DefaultLimitT ELSE DefaultLimitU
    IN  \E r \in IF impl = "typed" THEN GetTopIncentivizedPairsT(State(i), n)
                 ELSE GetTopIncentivizedPairsU(State(i), n) :
            Reads(i, [name |-> "getTopIncentivizedPairs", inst |-> i,
                      given |-> given, limit |-> n], r)

GetPairIncentiveDetails(i, pair) ==
    Reads(i, [name |-> "getPairIncentiveDetails", inst |-> i,
              token1 |-> pair[1], token2 |-> pair[2]],
          IF impl = "typed" THEN GetPairIncentiveDetailsT(State(i), pair[1], pair[2])
          ELSE GetPairIncentiveDetailsU(State(i), pair[1], pair[2]))

\* The caller writes into the object it holds: held.addyOwnership[address]
\* = record, or held.signedTxs[address] = [record].
CallerWrites(address, percentage) ==
    /\ nops < MaxOps
    /\ held # 0
    /\ store[held].hasOwn
    /\ store' = [store EXCEPT ![held].addyOwnership =
                    Put(@, address, Owner(percentage, 1, percentage))]
    /\ op' = [name |-> "callerWritesOwnership", address |-> address]
    /\ nops' = nops + 1
    /\ UNCHANGED <<impl, mgr, held, ret>>

CallerPushes(address, pair, weight) ==
    /\ nops < MaxOps
    /\ held # 0
    /\ store[held].hasTxs
    /\ store' = [store EXCEPT ![held].signedTxs =
                    Put(@, address,
                        Append(IF Has(@, address) THEN Get(@, address) ELSE <<>>,
                               Pref(pair[1], pair[2], weight)))]
    /\ op' = [name |-> "callerPushesPreference", address |-> address]
    /\ nops' = nops + 1
    /\ UNCHANGED <<impl, mgr, held, ret>>

\* ------------------------------------------------------- specifications

\* data has both maps.
IsWellFormed(data) ==
    data.shape = "object" /\ data.txsKind = "map" /\ data.ownKind = "map"

\* Every call but initialize and getState, on the managers of `insts`.
Operations(insts) ==
    \/ \E i \in insts : Reset(i)
    \/ \E i \in insts, a \in Addresses : NormalizeLiquidityWeights(i, a)
    \/ \E i \in insts, a \in Addresses : GetOwnershipDetails(i, a)
    \/ \E i \in insts, a \in Addresses, pr \in PairArgs, w \in WeightArgs :
          AddLiquidityPreference(i, a, pr, w)
    \/ \E i \in insts, a \in Addresses, t \in TokenArgs, p \in PercentageArgs :
          UpdateOwnership(i, a, t, p)
    \/ \E i \in insts : RecalculateVotingPower(i)
    \/ \E i \in insts : GetIncentivizedPairs(i)
    \/ \E i \in insts, l \in LimitArgs : GetTopIncentivizedPairs(i, TRUE, l)
    \/ \E i \in insts : GetTopIncentivizedPairs(i, FALSE, 0)
    \/ \E i \in insts, pr \in PairArgs : GetPairIncentiveDetails(i, pr)

\* Spec: one manager whose caller keeps no object.  The typed manager is
\* loaded with data that has both maps or is no object at all; the untyped
\* one also with objects that lack a map or hold one JSON cannot write.
Next ==
    \/ \E d \in WellFormed \cup NotAnObject : Initialize(1, d, FALSE)
    \/ \E d \in Partial \cup Unserializable :
          impl = "untyped" /\ Initialize(1, d, FALSE)
    \/ GetState(1, FALSE)
    \/ Operations({1})

Spec == Init /\ [][Next]_vars

\* SpecLoad: as Spec, and the typed manager too is given the objects that
\* lack a map.
NextLoad ==
    \/ \E d \in WellFormed \cup NotAnObject \cup Partial : Initialize(1, d, FALSE)
    \/ GetState(1, FALSE)
    \/ Operations({1})

SpecLoad == Init /\ [][NextLoad]_vars

\* SpecSnapshot: one manager whose caller keeps what getState gave it and
\* writes into it.
NextSnapshot ==
    \/ \E d \in WellFormed : Initialize(1, d, FALSE)
    \/ InitializeHeld(1)
    \/ \E keep \in BOOLEAN : GetState(1, keep)
    \/ Operations({1})
    \/ \E a \in Addresses, p \in {Q(2, 5), One} : CallerWrites(a, p)
    \/ \E a \in Addresses, pr \in PairArgs : CallerPushes(a, pr, One)

SpecSnapshot == Init /\ [][NextSnapshot]_vars

\* SpecShared: two managers whose caller keeps the data it loads and gives
\* it to an initialize again.
SharedData == {d \in WellFormed : Len(d.addyOwnership) = 2 /\ Len(d.signedTxs) = 1}

NextShared ==
    \/ \E i \in Instances, d \in SharedData, keep \in BOOLEAN : Initialize(i, d, keep)
    \/ \E i \in Instances : InitializeHeld(i)
    \/ \E i \in Instances, keep \in BOOLEAN : GetState(i, keep)
    \/ \E i \in Instances : Reset(i)
    \/ \E i \in Instances, a \in Addresses : NormalizeLiquidityWeights(i, a)
    \/ \E i \in Instances, a \in Addresses : GetOwnershipDetails(i, a)
    \/ \E i \in Instances, a \in Addresses :
          AddLiquidityPreference(i, a, <<"X", "Y">>, Q(1, 2))
    \/ \E i \in Instances, a \in Addresses, p \in {Q(2, 5), One} :
          UpdateOwnership(i, a, 1000, p)
    \/ \E i \in Instances : RecalculateVotingPower(i)

SpecShared == Init /\ [][NextShared]_vars

\* SpecPair: two managers that share nothing, each taken through the calls
\* that change a map, so that the states of the two are any two states a
\* manager can be in.
PairData == {d \in WellFormed :
                d.signedTxs = OneEntry("a1", <<Pref("X", "Y", Q(7, 10))>>)}

NextPair ==
    \/ \E i \in Instances, d \in PairData : Initialize(i, d, FALSE)
    \/ \E i \in Instances : Reset(i)
    \/ \E i \in Instances, a \in Addresses :
          AddLiquidityPreference(i, a, <<"X", "Y">>, Q(1, 2))
    \/ \E i \in Instances, a \in Addresses, p \in {Zero, Q(2, 5), One} :
          UpdateOwnership(i, a, 1000, p)
    \/ \E i \in Instances : RecalculateVotingPower(i)

SpecPair == Init /\ [][NextPair]_vars

\* SpecFresh: one manager that is never given data to load: from the
\* constructor on, updateOwnership, addLiquidityPreference and reset only,
\* and the aggregation read between them.
NextFresh ==
    \/ \E a \in Addresses, t \in TokenArgs, p \in PercentageArgs :
          UpdateOwnership(1, a, t, p)
    \/ \E a \in Addresses, pr \in PairArgs, w \in WeightArgs :
          AddLiquidityPreference(1, a, pr, w)
    \/ Reset(1)
    \/ GetIncentivizedPairs(1)

SpecFresh == Init /\ [][NextFresh]_vars

\* --------------------------------------------------------------- claims

Txs == State(1).signedTxs
Own == State(1).addyOwnership

\* |x - 1| <= eps
WithinOfOne(x, eps) == IsFinite(x) /\ ~NumGt(NumAbs(NumSub(x, One)), eps)

\* C1: getState returns a deep copy: a write of the caller into the object
\* getState gave it, at any depth, never changes the manager's state.
\* (SpecSnapshot: the only object the caller holds is a result of getState.)
C1_SnapshotIsDeepCopy ==
    [][op'.name \in {"callerWritesOwnership", "callerPushesPreference"}
          => State(1)' = State(1)]_vars

\* C2: getState right after an accepted initialize(s), s having both maps,
\* returns the two maps of s, no weight, share or voting power altered,
\* whatever the state before the load.
C2_RoundTrip ==
    (/\ op.name = "getState"
     /\ op.after.name = "initialize"
     /\ op.after.kind = "ok"
     /\ IsWellFormed(op.after.data))
    => /\ ret.kind = "ok"
       /\ IF impl = "typed"
          THEN ret.val = AsStateObj(op.after.data)
          ELSE /\ ret.val.signed_txs = op.after.data.signedTxs
               /\ ret.val.addy_ownership = op.after.data.addyOwnership

C2_Witness ==
    /\ impl = "untyped"
    /\ op.name = "getState"
    /\ op.after.name = "initialize"
    /\ op.after.kind = "ok"
    /\ IsWellFormed(op.after.data)
    /\ Has(ret.val.addy_ownership, "a2")
    /\ Get(ret.val.addy_ownership, "a2").voting_power = Q(1, 4)
    /\ Get(ret.val.addy_ownership, "a2").percentage = Q(5005, 10000)

\* C3: managers share no state: a call on one manager never changes the
\* state of the other, which is all that the other's calls read.
C3_InstancesShareNoState ==
    [][\A i \in Instances :
          op'.inst = i => \A j \in Instances \ {i} : State(j)' = State(j)]_vars

\* C4: a call that returns an error leaves both maps as they were.
C4_ErrorLeavesStateUnchanged ==
    [][ret'.kind = "err" => State(1)' = State(1)]_vars

\* C5: initialize returns an error and changes nothing unless data is an
\* object with both maps, and so no call ever throws.
C5_LoadRejectsIllFormed ==
    [][/\ (op'.name = "initialize" /\ ~IsWellFormed(op'.data))
            => (ret'.kind = "err" /\ State(1)' = State(1))
       /\ ret'.kind # "throw"]_vars

\* C6: updateOwnership returns the range error, and leaves both maps as they
\* were, exactly when percentage < 0 or percentage > 1; otherwise it succeeds.
C6_RangeChecked ==
    [][op'.name = "updateOwnership"
          => IF NumLt(op'.percentage, Zero) \/ NumGt(op'.percentage, One)
             THEN /\ ret'.kind = "err"
                  /\ ret'.err = "Percentage must be between 0 and 1"
                  /\ State(1)' = State(1)
             ELSE ret'.kind = "ok"]_vars

\* C7: a successful updateOwnership(a, n, p) changes the ownership map only
\* at a, which it maps to {tokens: n, percentage: p, voting_power: p}.
C7_WritesOneRecord ==
    [][(op'.name = "updateOwnership" /\ ret'.kind = "ok")
          => /\ Own' = Put(Own, op'.address,
                           Owner(op'.percentage, op'.tokens, op'.percentage))
             /\ Txs' = Txs]_vars

\* C8: recalculateVotingPower is idempotent: run again on the ownership map
\* it has just produced (by the untyped call, or inside the typed
\* updateOwnership), it changes no percentage and no voting_power.
C8_RecalculateIdempotent ==
    /\ (impl = "untyped" /\ op.name = "recalculateVotingPower")
          => RecalculateU(Own) = Own
    /\ (impl = "typed" /\ op.name = "updateOwnership" /\ ret.kind = "ok")
          => RecalculateVotingPowerT(Own) = Own

C8_Witness ==
    /\ impl = "untyped"
    /\ op.name = "recalculateVotingPower"
    /\ Len(Own) = 2
    /\ \A k \in 1..Len(Own) :
          Own[k].v.percentage = Q(1, 2) /\ Own[k].v.voting_power = Q(1, 2)

\* C9: after recalculateVotingPower on an ownership map whose percentages
\* have a nonzero sum, the voting_power values sum to 1 within 0.001,
\* whatever the percentages and voting powers were before.
C9_VotingPowerSumsToOne ==
    [][(/\ op'.name = "recalculateVotingPower"
        /\ IsFinite(SumPercentage(Own))
        /\ ~NumIsZero(SumPercentage(Own)))
          => WithinOfOne(SumVotingPower(Own'), Q(1, 1000))]_vars

\* The list of `address` before a normalizeLiquidityWeights call that the
\* claim C10 covers: at least one record and a finite, nonzero sum.
NormalizeCase ==
    /\ op'.name = "normalizeLiquidityWeights"
    /\ Has(Txs, op'.address)
    /\ Len(Get(Txs, op'.address)) >= 1
    /\ IsFinite(SumWeights(Get(Txs, op'.address)))
    /\ ~NumIsZero(SumWeights(Get(Txs, op'.address)))

\* C10 as claimed: the weights normalizeLiquidityWeights returns sum to 1
\* within 1e-9, each the previous weight divided by the previous sum.
C10_NormalizedExactly ==
    [][NormalizeCase
          => LET before == Get(Txs, op'.address)
             IN  /\ ret'.kind = "ok"
                 /\ WithinOfOne(SumWeights(ret'.val), Q(1, 1000000000))
                 /\ \A k \in 1..Len(before) :
                       ret'.val[k].weight =
                           NumDiv(before[k].weight, SumWeights(before))]_vars

\* C10 as amended: the weights returned sum to 1 within 1e-3; each is the
\* previous weight divided by the previous sum S, but the untyped class
\* returns (and keeps) the previous weights when |S - 1| <= 1e-3.  The
\* untyped class stores what it returns; the typed class stores nothing.
C10_NormalizedWithinTolerance ==
    [][NormalizeCase
          => LET before == Get(Txs, op'.address)
                 S == SumWeights(before)
                 kept == impl = "untyped" /\ WithinOfOne(S, Q(1, 1000))
             IN  /\ ret'.kind = "ok"
                 /\ Len(ret'.val) = Len(before)
                 /\ WithinOfOne(SumWeights(ret'.val), Q(1, 1000))
                 /\ \A k \in 1..Len(before) :
                       ret'.val[k].weight =
                           IF kept THEN before[k].weight
                           ELSE NumDiv(before[k].weight, S)
                 /\ Get(Txs', op'.address) =
                       IF impl = "untyped" THEN ret'.val ELSE before]_vars

C10_Witness ==
    /\ impl = "untyped"
    /\ op.name = "normalizeLiquidityWeights"
    /\ ret.kind = "ok"
    /\ Len(ret.val) = 2
    /\ SumWeights(ret.val) = Q(2001, 2000)

\* Every stored weight of manager 1 is a number (not NaN, not an Infinity).
WeightsDefined ==
    \A j \in 1..Len(Txs) : \A k \in 1..Len(Txs[j].v) : IsFinite(Txs[j].v[k].weight)

\* C11: normalizeLiquidityWeights on a list whose weights sum to zero
\* returns an error and leaves the list as it was, and no call, an
\* addLiquidityPreference included, stores a weight that is not a number.
C11_ZeroTotalWeightRejected ==
    [][/\ (/\ op'.name = "normalizeLiquidityWeights"
           /\ Has(Txs, op'.address)
           /\ NumIsZero(SumWeights(Get(Txs, op'.address))))
            => (ret'.kind = "err" /\ Txs' = Txs)
       /\ WeightsDefined => WeightsDefined']_vars

\* The list holds at most one record per unordered pair of tokens.
OneRecordPerPair(prefs) ==
    \A i, j \in 1..Len(prefs) :
        i # j => {prefs[i].token1, prefs[i].token2}
                    # {prefs[j].token1, prefs[j].token2}

\* The list of `address`, empty when the address has none.
ListOf(txs, address) == IF Has(txs, address) THEN Get(txs, address) ELSE <<>>

\* C12: addLiquidityPreference keeps the records of an address at one per
\* unordered pair: starting from a list with no two records of one pair (no
\* list, or the one record a first call leaves), the list after the call
\* has no two records of one pair either.
C12_OneRecordPerUnorderedPair ==
    [][(/\ op'.name = "addLiquidityPreference"
        /\ ret'.kind = "ok"
        /\ OneRecordPerPair(ListOf(Txs, op'.address)))
          => OneRecordPerPair(ListOf(Txs', op'.address))]_vars

\* C13: the typed addLiquidityPreference succeeds exactly when the address
\* has an ownership record; without one it returns the error 'Address not
\* found in ownership data' and changes nothing, so no list is created.
C13_TypedUpsertNeedsOwnership ==
    [][(impl = "typed" /\ op'.name = "addLiquidityPreference")
          => /\ ret'.kind = IF Has(Own, op'.address) THEN "ok" ELSE "err"
             /\ ~Has(Own, op'.address)
                  => /\ ret'.err = "Address not found in ownership data"
                     /\ State(1)' = State(1)]_vars

C13_Witness ==
    /\ impl = "typed"
    /\ op.name = "addLiquidityPreference"
    /\ ret.kind = "err"
    /\ ~Has(Own, op.address)
    /\ ~Has(Txs, op.address)
    /\ Len(Own) > 0

\* The entries of a getIncentivizedPairs result: the typed class returns
\* them as an array, the untyped one as an object keyed by pair key.
EntriesOf(val) ==
    IF impl = "typed" THEN val ELSE [i \in 1..Len(val) |-> val[i].v]

\* C14: a getIncentivizedPairs result has no two entries for one unordered
\* pair of tokens: records (X, Y) and (Y, X) add to the same entry.
C14_OneEntryPerUnorderedPair ==
    (op.name = "getIncentivizedPairs" /\ ret.kind = "ok")
    => LET es == EntriesOf(ret.val)
       IN  \A i, j \in 1..Len(es) :
              i # j => {es[i].token1, es[i].token2} # {es[j].token1, es[j].token2}

\* The voting power of `address`, 0 for an address with no ownership record.
VotingPowerOf(address) ==
    IF Has(Own, address) THEN Get(Own, address).voting_power ELSE Zero

\* The sum of voting power * weight over the records k.. of the list of
\* address j, and over the lists j.., that name the unordered pair `tokens`.
RECURSIVE SumOfPairFrom(_, _, _, _)
SumOfPairFrom(tokens, j, k, acc) ==
    IF j > Len(Txs) THEN acc
    ELSE IF k > Len(Txs[j].v) THEN SumOfPairFrom(tokens, j + 1, 1, acc)
    ELSE LET pref == Txs[j].v[k]
         IN  SumOfPairFrom(tokens, j, k + 1,
                 IF {pref.token1, pref.token2} = tokens
                 THEN NumAdd(acc, NumMul(VotingPowerOf(Txs[j].k), pref.weight))
                 ELSE acc)

\* The per-address values of an entry.
ContributionsOf(entry) ==
    IF impl = "typed" THEN entry.addressIncentives ELSE entry.addressContributions

\* C15: in a getIncentivizedPairs result the totalIncentive of every entry
\* is the sum of voting power * weight over all the records of that pair,
\* and is the sum of the entry's per-address values.
C15_TotalIsSumOfContributions ==
    (op.name = "getIncentivizedPairs" /\ ret.kind = "ok")
    => LET es == EntriesOf(ret.val)
       IN  \A i \in 1..Len(es) :
              /\ es[i].totalIncentive =
                     SumOfPairFrom({es[i].token1, es[i].token2}, 1, 1, Zero)
              /\ es[i].totalIncentive = SumValuesFrom(ContributionsOf(es[i]), 1, Zero)

\* C16 as claimed: getIncentivizedPairs does not fail, and every pair that a
\* record of any address names has an entry in the result.
C16_EveryNamedPairAppears ==
    op.name = "getIncentivizedPairs"
    => /\ ret.kind = "ok"
       /\ LET es == EntriesOf(ret.val)
          IN  \A j \in 1..Len(Txs) : \A k \in 1..Len(Txs[j].v) :
                 \E i \in 1..Len(es) :
                    {es[i].token1, es[i].token2}
                        = {Txs[j].v[k].token1, Txs[j].v[k].token2}

\* C16 as amended: getIncentivizedPairs does not fail over an address that
\* has records and no ownership record.  The untyped class counts such an
\* address with the voting power 0, so that every pair a record names has
\* an entry, with a value for the record's address.  The typed class passes
\* such an address over: its entries are the pairs named by the records of
\* the addresses that have an ownership record, and hold values for these
\* addresses only.
C16_MissingOwnershipTolerated ==
    op.name = "getIncentivizedPairs"
    => /\ ret.kind = "ok"
       /\ LET es == EntriesOf(ret.val)
              named(i, j, k) ==
                  IF impl = "typed"
                  THEN /\ es[i].token1 = Txs[j].v[k].token1
                       /\ es[i].token2 = Txs[j].v[k].token2
                  ELSE {es[i].token1, es[i].token2}
                          = {Txs[j].v[k].token1, Txs[j].v[k].token2}
              counted(j) == impl = "untyped" \/ Has(Own, Txs[j].k)
          IN  /\ \A j \in 1..Len(Txs) : \A k \in 1..Len(Txs[j].v) :
                    counted(j) =>
                        \E i \in 1..Len(es) :
                            named(i, j, k) /\ Has(ContributionsOf(es[i]), Txs[j].k)
              /\ \A i \in 1..Len(es) :
                    /\ \E j \in 1..Len(Txs) : \E k \in 1..Len(Txs[j].v) :
                          counted(j) /\ named(i, j, k)
                    /\ \A a \in 1..Len(ContributionsOf(es[i])) :
                          LET c == ContributionsOf(es[i])[a]
                          IN  IF Has(Own, c.k) THEN TRUE
                              ELSE impl = "untyped" /\ c.v \in {Zero, NaN}

C16_Witness ==
    /\ impl = "typed"
    /\ op.name = "getIncentivizedPairs"
    /\ ret.kind = "ok"
    /\ ret.val = <<>>
    /\ \E j \in 1..Len(Txs) : Len(Txs[j].v) > 0 /\ ~Has(Own, Txs[j].k)

\* The entries getIncentivizedPairs gives in the state of manager 1.
Aggregated ==
    IF impl = "typed" THEN PairListT(State(1))
    ELSE EntriesOf(PairsFromU(<<>>, State(1), 1))

\* C17: getTopIncentivizedPairs(k), k >= 0, returns min(k, number of entries)
\* entries whose totalIncentive never increases along the sequence, and no
\* entry left out has a totalIncentive greater than that of a returned one.
C17_TopPairsSorted ==
    (op.name = "getTopIncentivizedPairs" /\ op.limit >= 0)
    => /\ ret.kind = "ok"
       /\ Len(ret.val) = IF op.limit < Len(Aggregated) THEN op.limit
                         ELSE Len(Aggregated)
       /\ \A i \in 1..(Len(ret.val) - 1) :
             ~NumLt(ret.val[i].totalIncentive, ret.val[i + 1].totalIncentive)
       /\ \A i \in 1..Len(ret.val), j \in 1..Len(Aggregated) :
             (\A i2 \in 1..Len(ret.val) : ret.val[i2] # Aggregated[j])
                => ~NumGt(Aggregated[j].totalIncentive, ret.val[i].totalIncentive)

\* C18: getTopIncentivizedPairs(limit) with limit <= 0 returns an empty
\* sequence and no error.
C18_NonPositiveLimitGivesNone ==
    (op.name = "getTopIncentivizedPairs" /\ op.limit <= 0)
    => (ret.kind = "ok" /\ ret.val = <<>>)

\* getPairIncentiveDetails(token1, token2) in the state of manager 1.
PairDetails(token1, token2) ==
    IF impl = "typed" THEN GetPairIncentiveDetailsT(State(1), token1, token2)
    ELSE GetPairIncentiveDetailsU(State(1), token1, token2)

\* C19: getPairIncentiveDetails(A, B) gives what getPairIncentiveDetails(B, A)
\* gives in the same state: the same error or equal details.
C19_PairDetailsOrderIndependent ==
    op.name = "getPairIncentiveDetails"
    => /\ ret = PairDetails(op.token2, op.token1)
       /\ ret.kind \in {"ok", "err"}

C19_Witness ==
    /\ op.name = "getPairIncentiveDetails"
    /\ op.token1 = "Y"
    /\ op.token2 = "X"
    /\ ret.kind = "ok"
    /\ ret.val.token1 = "X"
    /\ ret.val.token2 = "Y"
    /\ impl = "typed"

\* C20: the typed getPairIncentiveDetails, the one that computes the
\* normalized values, does not divide by zero: for a pair whose total is 0
\* it returns an error or a map of zeros, and otherwise each normalized
\* value is the address's incentive divided by the total; no value it
\* returns is NaN or an Infinity.
C20_NoDivisionByZero ==
    (impl = "typed" /\ op.name = "getPairIncentiveDetails" /\ ret.kind = "ok")
    => LET total == ret.val.totalIncentive
           given == ret.val.addressIncentives
           normalized == ret.val.normalizedIncentives
       IN  /\ Len(normalized) = Len(given)
           /\ \A a \in 1..Len(given) :
                 /\ normalized[a].k = given[a].k
                 /\ IsFinite(normalized[a].v)
                 /\ normalized[a].v = IF NumIsZero(total) THEN Zero
                                      ELSE NumDiv(given[a].v, total)

\* The calls that read or derive: normalizeLiquidityWeights,
\* getOwnershipDetails, getIncentivizedPairs, getTopIncentivizedPairs and
\* getPairIncentiveDetails.
ReadNames ==
    {"normalizeLiquidityWeights", "getOwnershipDetails", "getIncentivizedPairs",
     "getTopIncentivizedPairs", "getPairIncentiveDetails"}

\* C21: the calls that read or derive are pure: none of them changes the
\* preference map or the ownership map, so that no later call sees a
\* difference for their having been made.
C21_ReadsArePure ==
    [][op'.name \in ReadNames => State(1)' = State(1)]_vars

\* What getState gives on a manager that has just been constructed.
FreshSnapshot ==
    IF impl = "typed" THEN GetStateT(EmptyState) ELSE GetStateU(EmptyState)

\* C22: reset succeeds from any state and leaves both maps empty, and a
\* getState right after it gives what it gives on a new manager.
C22_ResetGivesFreshState ==
    /\ op.name = "reset"
          => (ret.kind = "ok" /\ Txs = <<>> /\ Own = <<>> /\ State(1) = EmptyState)
    /\ (op.name = "getState" /\ op.after.name = "reset") => ret = FreshSnapshot

C22_Witness ==
    /\ op.name = "getState"
    /\ op.after.name = "reset"
    /\ op.after.kind = "ok"
    /\ nops = MaxOps
    /\ ret = FreshSnapshot

\* C23: recalculateVotingPower on an ownership map whose percentages sum to
\* 0 (the empty map, a map of zero shares) changes nothing: every record
\* keeps its percentage and its voting_power, and none becomes NaN.  The
\* typed class runs it inside updateOwnership, on the map as written.
C23_ZeroSumIsNoOp ==
    [][/\ (op'.name = "recalculateVotingPower" /\ NumIsZero(SumPercentage(Own)))
            => Own' = Own
       /\ (impl = "typed" /\ op'.name = "updateOwnership" /\ ret'.kind = "ok")
            => LET written == Put(Own, op'.address,
                                  Owner(op'.percentage, op'.tokens, op'.percentage))
               IN  NumIsZero(SumPercentage(written)) => Own' = written]_vars

\* The records of prefs that name the unordered pair {token1, token2}.
RecordsOfPair(prefs, token1, token2) ==
    {k \in 1..Len(prefs) : {prefs[k].token1, prefs[k].token2} = {token1, token2}}

\* A call changed the list of `address` at most: the ownership map and the
\* lists of the other addresses are as before.
OnlyListOf(address) ==
    /\ Own' = Own
    /\ Keys(Txs') = Keys(Txs) \cup {address}
    /\ \A b \in Keys(Txs) \ {address} : Get(Txs', b) = Get(Txs, b)

\* C24: a successful typed addLiquidityPreference(a, X, Y, w) sets the weight
\* of a's record of the pair {X, Y} to w, the list otherwise as it was, or,
\* when a has no record of the pair, appends the one record (X, Y, w); it
\* normalizes nothing and changes no other list and no ownership record.
C24_TypedUpsertOverwrites ==
    [][(impl = "typed" /\ op'.name = "addLiquidityPreference" /\ ret'.kind = "ok")
          => LET before == ListOf(Txs, op'.address)
                 after == ListOf(Txs', op'.address)
                 found == RecordsOfPair(before, op'.token1, op'.token2)
             IN  /\ OnlyListOf(op'.address)
                 /\ IF found # {}
                    THEN \E k \in found :
                            after = [before EXCEPT ![k].weight = op'.weight]
                    ELSE after = Append(before,
                                        Pref(op'.token1, op'.token2, op'.weight))]_vars

\* The list after the upsert of (token1, token2, weight) as C25 states it,
\* before the normalization: the weight added to the record k of the pair,
\* or a record appended, the tokens in sorted order.
Upserted(before, k, token1, token2, weight) ==
    LET std == SortTokens(token1, token2)
    IN  IF k = 0 THEN Append(before, Pref(std[1], std[2], weight))
        ELSE [before EXCEPT
                ![k] = Pref(std[1], std[2], NumAdd(before[k].weight, weight))]

\* C25: after every untyped addLiquidityPreference(a, X, Y, w), whatever the
\* state and the weight, the weights of a's records sum to 1 (within the
\* 0.001 of the normalization), the record of {X, Y} has its tokens in
\* sorted order, and the list is the previous one with w added to the
\* record of the pair (or the record appended), then normalized.
C25_UntypedUpsertNormalizes ==
    [][(impl = "untyped" /\ op'.name = "addLiquidityPreference")
          => LET before == ListOf(Txs, op'.address)
                 after == ListOf(Txs', op'.address)
                 found == RecordsOfPair(before, op'.token1, op'.token2)
                 std == SortTokens(op'.token1, op'.token2)
             IN  /\ ret'.kind = "ok"
                 /\ WithinOfOne(SumWeights(after), Q(1, 1000))
                 /\ \E j \in 1..Len(after) :
                       after[j].token1 = std[1] /\ after[j].token2 = std[2]
                 /\ \E k \in IF found = {} THEN {0} ELSE found :
                       LET up == Upserted(before, k, op'.token1, op'.token2,
                                          op'.weight)
                           S == SumWeights(up)
                       IN  /\ Len(after) = Len(up)
                           /\ \A j \in 1..Len(up) :
                                 /\ after[j].token1 = up[j].token1
                                 /\ after[j].token2 = up[j].token2
                                 /\ after[j].weight =
                                       IF WithinOfOne(S, Q(1, 1000))
                                       THEN up[j].weight
                                       ELSE NumDiv(up[j].weight, S)]_vars

\* The entries of the aggregation in this state that are of the unordered
\* pair {token1, token2}.
EntriesOfPair(token1, token2) ==
    {i \in 1..Len(Aggregated) :
        {Aggregated[i].token1, Aggregated[i].token2} = {token1, token2}}

\* C26: getPairIncentiveDetails(A, B) succeeds exactly when the aggregation
\* of the same state has an entry of the unordered pair {A, B}, and returns
\* an error otherwise; on success its tokens, its totalIncentive and its
\* per-address values are those of that entry.
C26_PairDetailsMatchAggregation ==
    op.name = "getPairIncentiveDetails"
    => LET found == EntriesOfPair(op.token1, op.token2)
       IN  IF found = {} THEN ret.kind = "err"
           ELSE /\ ret.kind = "ok"
                /\ \E i \in found :
                      /\ ret.val.token1 = Aggregated[i].token1
                      /\ ret.val.token2 = Aggregated[i].token2
                      /\ ret.val.totalIncentive = Aggregated[i].totalIncentive
                      /\ ContributionsOf(ret.val) = ContributionsOf(Aggregated[i])

\* Two ownership maps give every address the same percentage.
SamePercentages(own1, own2) ==
    /\ Keys(own1) = Keys(own2)
    /\ \A a \in Keys(own1) : Get(own1, a).percentage = Get(own2, a).percentage

\* C27: the voting powers are a function of the percentages of the
\* ownership map alone: two states a manager can reach (by initialize,
\* reset, addLiquidityPreference, updateOwnership, recalculateVotingPower)
\* that give every address the same percentage give every address the same
\* voting_power.  (SpecPair: the states of managers 1 and 2.)
C27_VotingPowerDerived ==
    SamePercentages(State(1).addyOwnership, State(2).addyOwnership)
    => \A a \in Keys(State(1).addyOwnership) :
          Get(State(1).addyOwnership, a).voting_power
              = Get(State(2).addyOwnership, a).voting_power

\* C28: after the untyped recalculateVotingPower, run on an ownership map
\* whose percentages have a nonzero sum, the voting_power of every record
\* is the percentage of that record.
C28_VotingPowerIsPercentage ==
    [][(/\ op'.name = "recalculateVotingPower"
        /\ IsFinite(SumPercentage(Own))
        /\ ~NumIsZero(SumPercentage(Own)))
          => \A k \in 1..Len(Own') :
                Own'[k].v.voting_power = Own'[k].v.percentage]_vars

\* The calls that add, update, normalize or read; not reset or initialize.
KeepingNames ==
    ReadNames \cup {"addLiquidityPreference", "updateOwnership",
                    "recalculateVotingPower", "getState"}

\* C29: nothing is deleted: no call but reset and initialize takes an
\* address out of the ownership map or out of the preference map, or makes
\* the list of an address shorter.
C29_NothingDeleted ==
    [][op'.name \in KeepingNames
          => /\ Keys(Own) \subseteq Keys(Own')
             /\ Keys(Txs) \subseteq Keys(Txs')
             /\ \A a \in Keys(Txs) : Len(Get(Txs', a)) >= Len(Get(Txs, a))]_vars

C29_Witness ==
    /\ op.name = "updateOwnership"
    /\ ret.kind = "ok"
    /\ nops = 2
    /\ Len(Own) = 2
    /\ Len(Txs) = 2
    /\ Own[1].k # op.address

\* C30: in the typed class, with no initialize, every address that has a
\* preference list has an ownership record, and so every record of every
\* list has its value in an entry of the aggregation.
C30_TypedListsHaveOwners ==
    impl = "typed"
    => /\ \A a \in Keys(Txs) : Has(Own, a)
       /\ \A j \in 1..Len(Txs) : \A k \in 1..Len(Txs[j].v) :
             \E i \in 1..Len(Aggregated) :
                /\ Aggregated[i].token1 = Txs[j].v[k].token1
                /\ Aggregated[i].token2 = Txs[j].v[k].token2
                /\ Has(Aggregated[i].addressIncentives, Txs[j].k)

C30_Witness ==
    /\ impl = "typed"
    /\ op.name = "getIncentivizedPairs"
    /\ ret.kind = "ok"
    /\ Len(ret.val) = 1
    /\ Len(Txs) = 1
    /\ Has(Own, Txs[1].k)

====
